---- MODULE Spec2Model ----
(***************************************************************************)
(* gloat: reconciliation of a Source of versioned migrations against the   *)
(* schema_migrations ledger of a DatabaseStore, the set algebra over       *)
(* Migrations, the query operations of Gloat, the Executor's unit of work  *)
(* and the command line drivers built on them.                             *)
(***************************************************************************)
EXTENDS Bags, FiniteSets, Integers, Sequences, TLC

(* ------------------------------ bounds --------------------------------- *)

\* Versions are 1..MaxVersion (stand-ins for the 14-digit timestamps).
MaxVersion == 3

\* Number of concurrent command line drivers in the racing specification.
NumDrivers == 2
\* The latest apply time of an entry of such a collection.
MaxTime == 1
\* The longest version prefix of a migration directory's name.
MaxDigits == 2

Versions == 1..MaxVersion

Drivers == 1..NumDrivers
\* The values of Migration.AppliedAt, ZeroTime being time.Time{}.
Times == 0..MaxTime

(* ------------------------------ values --------------------------------- *)

\* time.Time{}: the apply time of every Migration built by
\* MigrationFromBytes or scanned by DatabaseStore.Collect.
ZeroTime == 0

NoError == "nil"

ErrNotFound == "version not found"

\* The error a database driver returns for a failed statement.
DriverError == "driver error"

\* The driver's error for a PRIMARY KEY violation on schema_migrations.version.
DuplicateVersionError == "duplicate version"

ReadError == "read error"

ScriptExecutionError == "script execution error"

LedgerError == "ledger error"

IrreversibleError == "irreversible migration"

\* Where a database statement of a Store operation is made to fail.
StoreFaults == {"none", "createTable", "createIndex", "statement"}

(* ----------------------------- Migration ------------------------------- *)

\* A Migration as MigrationFromBytes builds it from a migration directory.
\* down is the content of down.sql, <<>> when the file is missing.
SourceMigration(v, down) ==
    [Version |-> v, UpSQL |-> <<"up", v>>, DownSQL |-> down,
     Path |-> <<"migrations", v>>, AppliedAt |-> ZeroTime]

\* A Migration as DatabaseStore.Collect scans it from a ledger row:
\* &Migration{} with only the Version filled in.
StoreMigration(v) ==
    [Version |-> v, UpSQL |-> <<>>, DownSQL |-> <<>>,
     Path |-> <<>>, AppliedAt |-> ZeroTime]

\* Reversible looking at the forward script instead of the reverse one.
ReversibleByUpSQL(m) == Len(m.UpSQL) # 0

\* Migration.Reversible
Reversible(m) == Len(m.DownSQL) # 0

VersionsOf(ms) == {ms[i].Version : i \in DOMAIN ms}

(* ---------------------------- set algebra ------------------------------ *)

\* Except with the two collections in each other's place.
ExceptSwapped(m, migrations) ==
    LET current == VersionsOf(migrations)
        new == VersionsOf(m)
        keep(x) == x.Version \in new /\ x.Version \notin current
    IN SelectSeq(m, keep)

\* Except giving up on an empty receiver.
ExceptNilReceiver(m, migrations) ==
    LET current == VersionsOf(m)
        new == VersionsOf(migrations)
        keep(x) == x.Version \in new /\ x.Version \notin current
    IN IF m = <<>> THEN <<>> ELSE SelectSeq(migrations, keep)

\* Except excluding nothing.
ExceptNothing(m, migrations) == migrations

\* m.Except(migrations): the entries of migrations whose Version is not a
\* key of the index built from m.
Except(m, migrations) ==
    LET current == VersionsOf(m)
        new == VersionsOf(migrations)
        keep(x) == x.Version \in new /\ x.Version \notin current
    IN SelectSeq(migrations, keep)

\* The value of the index map[Version]AppliedAt built by ranging over m:
\* a later entry overwrites an earlier one of the same Version.
IndexAt(m, v) ==
    LET last == CHOOSE i \in DOMAIN m :
                    /\ m[i].Version = v
                    /\ \A j \in DOMAIN m : m[j].Version = v => j <= i
    IN m[last].AppliedAt

\* Intersect without the assignment to migration.AppliedAt.
IntersectKeepingTime(m, migrations) ==
    LET store == VersionsOf(m)
        source == VersionsOf(migrations)
        keep(x) == x.Version \in source /\ x.Version \in store
    IN SelectSeq(migrations, keep)

\* Intersect appending the receiver's entries instead of the argument's.
IntersectOfReceiver(m, migrations) ==
    LET store == VersionsOf(m)
        source == VersionsOf(migrations)
        keep(x) == x.Version \in source /\ x.Version \in store
    IN SelectSeq(m, keep)

\* m.Intersect(migrations): the entries of migrations whose Version is a key
\* of the index built from m, each with AppliedAt overwritten from the index.
Intersect(m, migrations) ==
    LET store == VersionsOf(m)
        source == VersionsOf(migrations)
        keep(x) == x.Version \in source /\ x.Version \in store
        kept == SelectSeq(migrations, keep)
    IN [i \in DOMAIN kept |->
           [kept[i] EXCEPT !.AppliedAt = IndexAt(m, kept[i].Version)]]

\* The entries of migrations after m.Intersect(migrations) had it assign
\* AppliedAt before looking at `has`: a Version missing from the index reads
\* the zero time.
IntersectWritesUnchecked(m, migrations) ==
    [i \in DOMAIN migrations |->
        [migrations[i] EXCEPT !.AppliedAt =
            IF migrations[i].Version \in VersionsOf(m)
            THEN IndexAt(m, migrations[i].Version) ELSE ZeroTime]]

\* The entries of migrations after m.Intersect(migrations): the collections
\* hold pointers, so the assignment migration.AppliedAt = appliedAt lands on
\* the caller's Migration objects.
IntersectWrites(m, migrations) ==
    [i \in DOMAIN migrations |->
        IF migrations[i].Version \in VersionsOf(m)
        THEN [migrations[i] EXCEPT
                 !.AppliedAt = IndexAt(m, migrations[i].Version)]
        ELSE migrations[i]]

\* Less comparing the Versions alone.
LessByVersion(a, b) == a.Version < b.Version

\* Less without the comparison of Versions for equal apply times.
LessByTimeOnly(a, b) == a.AppliedAt < b.AppliedAt

\* Migrations.Less on two entries.
Less(a, b) ==
    IF a.AppliedAt < b.AppliedAt THEN TRUE
    ELSE IF a.AppliedAt > b.AppliedAt THEN FALSE
    ELSE a.Version < b.Version

\* The order a sort uses: Migrations.Less, or for sort.Reverse(m) its
\* Less(i, j) = m.Less(j, i).
SortLess(a, b, reverse) == IF reverse THEN Less(b, a) ELSE Less(a, b)

RECURSIVE InsertSorted(_, _, _)
\* x placed in the sorted sequence s before the first entry it is less than.
InsertSorted(x, s, reverse) ==
    IF s = <<>> THEN <<x>>
    ELSE IF SortLess(x, Head(s), reverse) THEN <<x>> \o s
    ELSE <<Head(s)>> \o InsertSorted(x, Tail(s), reverse)

RECURSIVE SortBy(_, _)
\* sort.Sort of m, or of sort.Reverse(m).
SortBy(m, reverse) ==
    IF m = <<>> THEN <<>>
    ELSE InsertSorted(m[Len(m)], SortBy(SubSeq(m, 1, Len(m) - 1), reverse),
                      reverse)

\* Sort putting the highest Version first.
SortNewestFirst(m) == SortBy(m, TRUE)

Sort(m) == SortBy(m, FALSE)

\* ReverseSort sorting forward.
ReverseSortForward(m) == SortBy(m, FALSE)

ReverseSort(m) == SortBy(m, TRUE)

\* Migrations.Current returning the first entry after Sort instead of the last.
MigrationsCurrentFirst(m) ==
    LET s == Sort(m)
    IN IF Len(s) = 0 THEN <<>> ELSE <<s[1]>>

\* Migrations.Current taking the last entry without sorting first.
MigrationsCurrentUnsorted(m) ==
    IF Len(m) = 0 THEN <<>> ELSE <<m[Len(m)]>>

\* Migrations.Current: the last entry after Sort, <<>> for nil.
MigrationsCurrent(m) ==
    LET s == Sort(m)
    IN IF Len(s) = 0 THEN <<>> ELSE <<s[Len(s)]>>

(* ------------------------------- state --------------------------------- *)

VARIABLES
    source,       \* the migrations the Source enumerates, in its order
    tableExists,  \* schema_migrations has been created
    indexExists,  \* schema_migrations_version_tag has been created
    ledger,       \* the rows of schema_migrations: a bag of versions
    schema,       \* the versions whose forward script's effect is in place
    pc,           \* per driver: the command it is running
    queue,        \* per driver: the migrations its batch has still to process
    cmdErr,       \* per driver: the error its last command returned
    batch,        \* per driver: what its last command set out to do
    tx,           \* per driver: the state of the transaction it has open
    recv,         \* a Migrations value: the receiver of the set algebra
    arg,          \* a Migrations value: the argument of the set algebra
    last          \* the last call made: its arguments and what it returned

vars == <<source, tableExists, indexExists, ledger, schema, pc, queue,
          cmdErr, batch, tx, recv, arg, last>>

dbVars == <<tableExists, indexExists, ledger, schema>>

driverVars == <<pc, queue, cmdErr, batch, tx>>

\* What the callers of the library hold: the Source and two Migrations values.
inputVars == <<source, recv, arg>>

(* ------------------------------- Source -------------------------------- *)

\* Source.Collect: the enumerated migrations, or a read error.
SourceCollect(src, fails) ==
    IF fails THEN [migrations |-> <<>>, err |-> ReadError]
    ELSE [migrations |-> src, err |-> NoError]

(* ---------------------------- DatabaseStore ---------------------------- *)

\* ensureSchemaTableExists: CREATE TABLE IF NOT EXISTS, then CREATE INDEX IF
\* NOT EXISTS, both on s.db; the first failing statement's error is returned.
ensureSchemaTableExists(table, index, fault) ==
    IF fault = "createTable"
    THEN [err |-> DriverError, table |-> table, index |-> index]
    ELSE IF fault = "createIndex"
    THEN [err |-> DriverError, table |-> TRUE, index |-> index]
    ELSE [err |-> NoError, table |-> TRUE, index |-> TRUE]

\* n rows of version v as Collect scans them.
RowsOf(v, n) == [i \in 1..n |-> StoreMigration(v)]

RECURSIVE RowsDesc(_, _)
\* SELECT version ... ORDER BY version DESC over the versions v, v-1, ..., 1.
RowsDesc(rows, v) ==
    IF v = 0 THEN <<>>
    ELSE RowsOf(v, CopiesIn(v, rows)) \o RowsDesc(rows, v - 1)

\* DatabaseStore.Collect going straight to its SELECT, which fails on a
\* database without the table.
StoreCollectNoEnsure(table, index, rows, fault) ==
    IF fault = "statement" \/ ~table
    THEN [migrations |-> <<>>, err |-> DriverError,
          table |-> table, index |-> index]
    ELSE [migrations |-> RowsDesc(rows, MaxVersion), err |-> NoError,
          table |-> table, index |-> index]

\* DatabaseStore.Collect
StoreCollect(table, index, rows, fault) ==
    LET e == ensureSchemaTableExists(table, index, fault)
    IN IF e.err # NoError
       THEN [migrations |-> <<>>, err |-> e.err,
             table |-> e.table, index |-> e.index]
       ELSE IF fault = "statement"
       THEN [migrations |-> <<>>, err |-> DriverError,
             table |-> e.table, index |-> e.index]
       ELSE [migrations |-> RowsDesc(rows, MaxVersion), err |-> NoError,
             table |-> e.table, index |-> e.index]

\* DatabaseStore.Insert into a table whose version column is not a key.
StoreInsertNoKey(table, index, rows, m, fault) ==
    LET e == ensureSchemaTableExists(table, index, fault)
    IN IF e.err # NoError
       THEN [err |-> e.err, table |-> e.table, index |-> e.index,
             rows |-> rows]
       ELSE IF fault = "statement"
       THEN [err |-> DriverError, table |-> e.table, index |-> e.index,
             rows |-> rows]
       ELSE [err |-> NoError, table |-> e.table, index |-> e.index,
             rows |-> rows (+) SetToBag({m.Version})]

\* DatabaseStore.Insert that reports success without writing the row.
StoreInsertNothing(table, index, rows, m, fault) ==
    LET e == ensureSchemaTableExists(table, index, fault)
    IN IF e.err # NoError
       THEN [err |-> e.err, table |-> e.table, index |-> e.index,
             rows |-> rows]
       ELSE IF fault = "statement"
       THEN [err |-> DriverError, table |-> e.table, index |-> e.index,
             rows |-> rows]
       ELSE [err |-> NoError, table |-> e.table, index |-> e.index,
             rows |-> rows]

\* DatabaseStore.Insert: INSERT INTO schema_migrations, whose version column
\* is the PRIMARY KEY.
StoreInsert(table, index, rows, m, fault) ==
    LET e == ensureSchemaTableExists(table, index, fault)
    IN IF e.err # NoError
       THEN [err |-> e.err, table |-> e.table, index |-> e.index,
             rows |-> rows]
       ELSE IF fault = "statement"
       THEN [err |-> DriverError, table |-> e.table, index |-> e.index,
             rows |-> rows]
       ELSE IF BagIn(m.Version, rows)
       THEN [err |-> DuplicateVersionError, table |-> e.table,
             index |-> e.index, rows |-> rows]
       ELSE [err |-> NoError, table |-> e.table, index |-> e.index,
             rows |-> rows (+) SetToBag({m.Version})]

\* DatabaseStore.Remove that treats a DELETE affecting no row as an error.
StoreRemoveStrict(table, index, rows, m, fault) ==
    LET e == ensureSchemaTableExists(table, index, fault)
    IN IF e.err # NoError
       THEN [err |-> e.err, table |-> e.table, index |-> e.index,
             rows |-> rows]
       ELSE IF fault = "statement"
       THEN [err |-> DriverError, table |-> e.table, index |-> e.index,
             rows |-> rows]
       ELSE IF ~BagIn(m.Version, rows)
       THEN [err |-> ErrNotFound, table |-> e.table, index |-> e.index,
             rows |-> rows]
       ELSE [err |-> NoError, table |-> e.table, index |-> e.index,
             rows |-> [v \in DOMAIN rows \ {m.Version} |-> rows[v]]]

\* DatabaseStore.Remove: DELETE FROM schema_migrations WHERE version = ?
StoreRemove(table, index, rows, m, fault) ==
    LET e == ensureSchemaTableExists(table, index, fault)
    IN IF e.err # NoError
       THEN [err |-> e.err, table |-> e.table, index |-> e.index,
             rows |-> rows]
       ELSE IF fault = "statement"
       THEN [err |-> DriverError, table |-> e.table, index |-> e.index,
             rows |-> rows]
       ELSE [err |-> NoError, table |-> e.table, index |-> e.index,
             rows |-> [v \in DOMAIN rows \ {m.Version} |-> rows[v]]]

(* ------------------------------ Executor ------------------------------- *)

\* Executor.Up: one transaction that runs the forward script and then
\* Store.Insert; a failure of either step rolls the transaction back.
\* ensureSchemaTableExists inside Insert runs on s.db, outside the
\* transaction, so the ledger table it creates survives a rollback.
ExecutorUp(table, index, rows, effects, m, fault, scriptFails) ==
    LET ins == StoreInsert(table, index, rows, m, fault)
    IN IF scriptFails
       THEN [err |-> ScriptExecutionError, table |-> table, index |-> index,
             rows |-> rows, schema |-> effects, ranScript |-> TRUE]
       ELSE IF ins.err # NoError
       THEN [err |-> LedgerError, table |-> ins.table, index |-> ins.index,
             rows |-> rows, schema |-> effects, ranScript |-> TRUE]
       ELSE [err |-> NoError, table |-> ins.table, index |-> ins.index,
             rows |-> ins.rows, schema |-> effects \cup {m.Version},
             ranScript |-> TRUE]

\* Executor.Down: refuses a migration that is not Reversible; otherwise one
\* transaction that runs the reverse script and then Store.Remove.
ExecutorDown(table, index, rows, effects, m, fault, scriptFails) ==
    LET rem == StoreRemove(table, index, rows, m, fault)
    IN IF ~Reversible(m)
       THEN [err |-> IrreversibleError, table |-> table, index |-> index,
             rows |-> rows, schema |-> effects, ranScript |-> FALSE]
       ELSE IF scriptFails
       THEN [err |-> ScriptExecutionError, table |-> table, index |-> index,
             rows |-> rows, schema |-> effects, ranScript |-> TRUE]
       ELSE IF rem.err # NoError
       THEN [err |-> LedgerError, table |-> rem.table, index |-> rem.index,
             rows |-> rows, schema |-> effects, ranScript |-> TRUE]
       ELSE [err |-> NoError, table |-> rem.table, index |-> rem.index,
             rows |-> rem.rows, schema |-> effects \ {m.Version},
             ranScript |-> TRUE]

\* Gloat.Apply recording the Version in the Store before calling the Executor.
GloatApplyInsertFirst(table, index, rows, effects, m, fault, scriptFails) ==
    LET ins == StoreInsert(table, index, rows, m, fault)
    IN ExecutorUp(ins.table, ins.index, ins.rows, effects, m, fault,
                  scriptFails)

\* Gloat.Apply calling Executor.Up a second time.
GloatApplyTwice(table, index, rows, effects, m, fault, scriptFails) ==
    LET first == ExecutorUp(table, index, rows, effects, m, fault,
                            scriptFails)
    IN ExecutorUp(first.table, first.index, first.rows, first.schema, m,
                  fault, scriptFails)

\* Gloat.Apply
GloatApply(table, index, rows, effects, m, fault, scriptFails) ==
    ExecutorUp(table, index, rows, effects, m, fault, scriptFails)

\* Gloat.Revert
GloatRevert(table, index, rows, effects, m, fault, scriptFails) ==
    ExecutorDown(table, index, rows, effects, m, fault, scriptFails)

(* ------------------------------- queries ------------------------------- *)

\* AppliedAfter without the found check: a version that is never met yields
\* every applied migration instead of ErrNotFound.
AppliedAfterUnchecked(storeRes, sourceRes, version) ==
    IF storeRes.err # NoError
    THEN [migrations |-> <<>>, err |-> storeRes.err]
    ELSE LET applied == storeRes.migrations
             hits == {i \in DOMAIN applied : applied[i].Version = version}
             stop == IF hits = {} THEN Len(applied) + 1
                     ELSE CHOOSE i \in hits : \A j \in hits : i <= j
             appliedAfter == SubSeq(applied, 1, stop - 1)
         IN IF sourceRes.err # NoError
            THEN [migrations |-> <<>>, err |-> sourceRes.err]
            ELSE [migrations |->
                      ReverseSort(Intersect(ReverseSort(appliedAfter),
                                            sourceRes.migrations)),
                  err |-> NoError]

\* AppliedAfter appending the entry before comparing its Version, so that the
\* target itself is among the migrations returned.
AppliedAfterInclusive(storeRes, sourceRes, version) ==
    IF storeRes.err # NoError
    THEN [migrations |-> <<>>, err |-> storeRes.err]
    ELSE LET applied == storeRes.migrations
             hits == {i \in DOMAIN applied : applied[i].Version = version}
             found == hits # {}
             stop == CHOOSE i \in hits : \A j \in hits : i <= j
             appliedAfter == SubSeq(applied, 1, stop)
         IN IF ~found
            THEN [migrations |-> <<>>, err |-> ErrNotFound]
            ELSE IF sourceRes.err # NoError
            THEN [migrations |-> <<>>, err |-> sourceRes.err]
            ELSE [migrations |->
                      ReverseSort(Intersect(ReverseSort(appliedAfter),
                                            sourceRes.migrations)),
                  err |-> NoError]

\* AppliedAfter with the final ReverseSort replaced by Sort.
AppliedAfterAscending(storeRes, sourceRes, version) ==
    IF storeRes.err # NoError
    THEN [migrations |-> <<>>, err |-> storeRes.err]
    ELSE LET applied == storeRes.migrations
             hits == {i \in DOMAIN applied : applied[i].Version = version}
             found == hits # {}
             stop == CHOOSE i \in hits : \A j \in hits : i <= j
             appliedAfter == SubSeq(applied, 1, stop - 1)
         IN IF ~found
            THEN [migrations |-> <<>>, err |-> ErrNotFound]
            ELSE IF sourceRes.err # NoError
            THEN [migrations |-> <<>>, err |-> sourceRes.err]
            ELSE [migrations |->
                      Sort(Intersect(ReverseSort(appliedAfter),
                                     sourceRes.migrations)),
                  err |-> NoError]

\* AppliedAfter(store, source, version), given what the two Collect calls
\* return; source.Collect is only consulted once the version was found.
AppliedAfter(storeRes, sourceRes, version) ==
    IF storeRes.err # NoError
    THEN [migrations |-> <<>>, err |-> storeRes.err]
    ELSE LET applied == storeRes.migrations
             hits == {i \in DOMAIN applied : applied[i].Version = version}
             found == hits # {}
             stop == CHOOSE i \in hits : \A j \in hits : i <= j
             appliedAfter == SubSeq(applied, 1, stop - 1)
         IN IF ~found
            THEN [migrations |-> <<>>, err |-> ErrNotFound]
            ELSE IF sourceRes.err # NoError
            THEN [migrations |-> <<>>, err |-> sourceRes.err]
            ELSE [migrations |->
                      ReverseSort(Intersect(ReverseSort(appliedAfter),
                                            sourceRes.migrations)),
                  err |-> NoError]

\* UnappliedMigrations without the trailing Sort.
UnappliedMigrationsUnsorted(storeRes, sourceRes) ==
    IF storeRes.err # NoError
    THEN [migrations |-> <<>>, err |-> storeRes.err]
    ELSE IF sourceRes.err # NoError
    THEN [migrations |-> <<>>, err |-> sourceRes.err]
    ELSE [migrations |-> Except(storeRes.migrations, sourceRes.migrations),
          err |-> NoError]

\* UnappliedMigrations(store, source)
UnappliedMigrations(storeRes, sourceRes) ==
    IF storeRes.err # NoError
    THEN [migrations |-> <<>>, err |-> storeRes.err]
    ELSE IF sourceRes.err # NoError
    THEN [migrations |-> <<>>, err |-> sourceRes.err]
    ELSE [migrations |->
              Sort(Except(storeRes.migrations, sourceRes.migrations)),
          err |-> NoError]

\* Gloat.Current: <<>> for a nil migration, <<m>> otherwise.
GloatCurrent(storeRes, sourceRes) ==
    IF storeRes.err # NoError
    THEN [migrations |-> <<>>, err |-> storeRes.err]
    ELSE LET currentMigration == MigrationsCurrent(storeRes.migrations)
             available == sourceRes.migrations
             hits == {i \in DOMAIN available :
                         available[i].Version = currentMigration[1].Version}
             i == CHOOSE k \in hits : \A j \in hits : j <= k
         IN IF currentMigration = <<>>
            THEN [migrations |-> <<>>, err |-> NoError]
            ELSE IF sourceRes.err # NoError
            THEN [migrations |-> <<>>, err |-> sourceRes.err]
            ELSE IF hits = {}
            THEN [migrations |-> <<>>, err |-> NoError]
            ELSE [migrations |->
                      <<[available[i] EXCEPT
                            !.AppliedAt = currentMigration[1].AppliedAt]>>,
                  err |-> NoError]

\* Gloat.Latest: <<>> for a nil migration, <<m>> otherwise.
GloatLatest(sourceRes) ==
    IF sourceRes.err # NoError
    THEN [migrations |-> <<>>, err |-> sourceRes.err]
    ELSE [migrations |-> MigrationsCurrent(sourceRes.migrations),
          err |-> NoError]

\* Gloat.Present without the Sort.
GloatPresentUnsorted(sourceRes) ==
    IF sourceRes.err # NoError
    THEN [migrations |-> <<>>, err |-> sourceRes.err]
    ELSE [migrations |-> sourceRes.migrations, err |-> NoError]

\* Gloat.Present
GloatPresent(sourceRes) ==
    IF sourceRes.err # NoError
    THEN [migrations |-> <<>>, err |-> sourceRes.err]
    ELSE [migrations |-> Sort(sourceRes.migrations), err |-> NoError]

(* ----------------------------- initial states -------------------------- *)

\* The content of down.sql: missing, or some script.
DownScripts == {<<>>, <<"down">>}

Orderings(S) ==
    {f \in [1..Cardinality(S) -> S] : \A i, j \in DOMAIN f : f[i] = f[j] => i = j}

\* Every enumeration of a set of migration directories with distinct Versions.
Sources ==
    UNION {{[i \in DOMAIN f |-> SourceMigration(f[i], d[f[i]])] :
               f \in Orderings(S), d \in [S -> DownScripts]} :
           S \in SUBSET Versions}

\* The enumerations in ascending Version order (a directory listing).
SortedSources ==
    {s \in Sources : \A i, j \in DOMAIN s : i < j => s[i].Version < s[j].Version}

NoCall ==
    [op |-> "none", version |-> 0, fault |-> "none", sourceFails |-> FALSE,
     before |-> EmptyBag, beforeSchema |-> {}, beforeTable |-> FALSE,
     migrations |-> <<>>, err |-> NoError, scriptFailed |-> FALSE,
     ranScript |-> FALSE, prevOp |-> "none", prevMigrations |-> <<>>,
     recv |-> <<>>, arg |-> <<>>, beforeIndex |-> FALSE,
     prevVersion |-> 0, prevErr |-> NoError]

\* The database as earlier runs left it: never initialised, or holding the
\* ledger of the migrations whose effects are in place.
InitDatabase ==
    \/ /\ tableExists = FALSE
       /\ indexExists = FALSE
       /\ ledger = EmptyBag
       /\ schema = {}
    \/ /\ tableExists = TRUE
       /\ indexExists = TRUE
       /\ \E S \in SUBSET Versions :
             /\ ledger = SetToBag(S)
             /\ schema = S

\* No command ran before this one, or the specification keeps no account of it.
NoPrior == [cmd |-> "none", err |-> NoError, applied |-> 0]

\* No command has run yet.
NoBatch == [cmd |-> "none", version |-> 0, before |-> EmptyBag,
            planned |-> <<>>, done |-> <<>>, attempts |-> 0, prior |-> NoPrior]

InitDrivers ==
    /\ pc = [d \in Drivers |-> "idle"]
    /\ queue = [d \in Drivers |-> <<>>]
    /\ cmdErr = [d \in Drivers |-> NoError]
    /\ batch = [d \in Drivers |-> NoBatch]
    /\ tx = [d \in Drivers |-> "none"]
    /\ recv = <<>>
    /\ arg = <<>>
    /\ last = NoCall

(* ------------------------- the query operations ------------------------ *)

\* The database and the record of the call after a query: Store.Collect
\* runs first and may create the ledger table; nothing else changes.
Queried(op, version, fault, sourceFails, storeRes, r) ==
    /\ tableExists' = storeRes.table
    /\ indexExists' = storeRes.index
    /\ last' = [NoCall EXCEPT !.op = op, !.version = version,
                              !.fault = fault, !.sourceFails = sourceFails,
                              !.before = ledger, !.beforeSchema = schema,
                              !.beforeTable = tableExists,
                              !.migrations = r.migrations, !.err = r.err]
    /\ UNCHANGED <<inputVars, ledger, schema>>

\* Gloat.Unapplied
CallUnapplied ==
    \E fault \in StoreFaults, sourceFails \in BOOLEAN :
        LET storeRes == StoreCollect(tableExists, indexExists, ledger, fault)
            r == UnappliedMigrations(storeRes,
                                     SourceCollect(source, sourceFails))
        IN /\ Queried("Unapplied", 0, fault, sourceFails, storeRes, r)
           /\ UNCHANGED driverVars

\* Gloat.Current
CallCurrent ==
    \E fault \in StoreFaults, sourceFails \in BOOLEAN :
        LET storeRes == StoreCollect(tableExists, indexExists, ledger, fault)
            r == GloatCurrent(storeRes, SourceCollect(source, sourceFails))
        IN /\ Queried("Current", 0, fault, sourceFails, storeRes, r)
           /\ UNCHANGED driverVars

\* Gloat.AppliedAfter
CallAppliedAfter ==
    \E version \in Versions, fault \in StoreFaults, sourceFails \in BOOLEAN :
        LET storeRes == StoreCollect(tableExists, indexExists, ledger, fault)
            r == AppliedAfter(storeRes, SourceCollect(source, sourceFails),
                              version)
        IN /\ Queried("AppliedAfter", version, fault, sourceFails, storeRes, r)
           /\ UNCHANGED driverVars

\* The Sources of the queries, which look at no script: every enumeration
\* order, the migrations all with or all without a reverse script.
QuerySources ==
    {s \in Sources : \A i, j \in DOMAIN s : s[i].DownSQL = s[j].DownSQL}

InitQuery ==
    /\ source \in QuerySources
    /\ InitDatabase
    /\ InitDrivers

NextQuery ==
    \/ CallUnapplied
    \/ CallCurrent
    \/ CallAppliedAfter

\* The query operations of Gloat over every Source and every ledger.
SpecQuery == InitQuery /\ [][NextQuery]_vars

(* --------------------- properties of the queries ----------------------- *)

\* The Versions recorded in the ledger.
Applied == BagToSet(ledger)

\* The entries of the Source, as a set.
Available == {source[i] : i \in DOMAIN source}

\* The Versions of a result, in the order of the result.
VersionSeq(ms) == [i \in DOMAIN ms |-> ms[i].Version]

Ascending(vs) == \A i, j \in DOMAIN vs : i < j => vs[i] < vs[j]

Descending(vs) == \A i, j \in DOMAIN vs : i < j => vs[i] > vs[j]

\* Both Collect calls of the last query succeeded.
CollectsSucceeded == last.fault = "none" /\ ~last.sourceFails

\* C1: Unapplied() returns exactly the entries of the Source whose Version is
\* not in the applied set, in ascending Version order and without error;
\* applied Versions absent from the Source play no part, and the result may
\* be empty.
C1_UnappliedExact ==
    (last.op = "Unapplied" /\ CollectsSucceeded) =>
        /\ last.err = NoError
        /\ \A i \in DOMAIN last.migrations : last.migrations[i] \in Available
        /\ VersionsOf(last.migrations) = VersionsOf(source) \ Applied
        /\ Ascending(VersionSeq(last.migrations))

\* Unapplied() answered two or more entries, leaving an applied one out, of
\* a Source that does not enumerate in ascending order.
C1_Witness ==
    /\ last.op = "Unapplied" /\ CollectsSucceeded
    /\ Len(last.migrations) >= 2
    /\ ~Ascending(VersionSeq(source))
    /\ Applied \cap VersionsOf(source) # {}

\* C7: AppliedAfter(V) fails with ErrNotFound and returns no migrations
\* whenever V is not among the applied Versions, the empty applied set
\* included.
C7_AppliedAfterNotFound ==
    (last.op = "AppliedAfter" /\ last.fault = "none"
        /\ last.version \notin Applied) =>
        /\ last.err = ErrNotFound
        /\ last.migrations = <<>>

\* AppliedAfter(V) was refused for a V that is in the Source and higher than
\* some applied Version, but is not itself applied.
C7_Witness ==
    /\ last.op = "AppliedAfter" /\ last.fault = "none"
    /\ last.version \notin Applied
    /\ last.version \in VersionsOf(source)
    /\ \E v \in Applied : v < last.version
    /\ last.err = ErrNotFound

\* C8 as claimed: when V is applied, AppliedAfter(V) returns the applied
\* entries that precede V in the descending scan of the ledger, ordered
\* ascending by Version.
C8_Claimed_AscendingAppliedAfter ==
    (last.op = "AppliedAfter" /\ CollectsSucceeded
        /\ last.version \in Applied) =>
        /\ last.err = NoError
        /\ VersionsOf(last.migrations) = {v \in Applied : v > last.version}
        /\ Ascending(VersionSeq(last.migrations))

\* C8 as amended: when V is applied, AppliedAfter(V) returns without error
\* the Source's entries for the applied Versions that precede V in the
\* descending scan of the ledger and exist in the Source, ordered descending
\* by Version.
C8_AppliedAfterDescending ==
    (last.op = "AppliedAfter" /\ CollectsSucceeded
        /\ last.version \in Applied) =>
        /\ last.err = NoError
        /\ \A i \in DOMAIN last.migrations : last.migrations[i] \in Available
        /\ VersionsOf(last.migrations) =
               {v \in Applied : v > last.version} \cap VersionsOf(source)
        /\ Descending(VersionSeq(last.migrations))

\* AppliedAfter(V) answered two entries, the higher Version first.
C8_Witness ==
    /\ last.op = "AppliedAfter" /\ CollectsSucceeded
    /\ last.version \in Applied
    /\ Len(last.migrations) = 2
    /\ last.migrations[1].Version > last.migrations[2].Version

\* The highest applied Version, 0 when nothing is applied.
HighestApplied ==
    IF Applied = {} THEN 0
    ELSE CHOOSE v \in Applied : \A w \in Applied : w <= v

\* C10: Current() returns the Source entry whose Version is the highest
\* applied Version; it returns none without error when nothing is applied,
\* and none without error when the highest applied Version is absent from
\* the Source, without falling back to a lower applied Version.
C10_CurrentHighestApplied ==
    (last.op = "Current" /\ last.fault = "none") =>
        /\ Applied = {} => last.migrations = <<>> /\ last.err = NoError
        /\ (Applied # {} /\ ~last.sourceFails) =>
              /\ last.err = NoError
              /\ HighestApplied \in VersionsOf(source) =>
                    /\ Len(last.migrations) = 1
                    /\ last.migrations[1] \in Available
                    /\ last.migrations[1].Version = HighestApplied
              /\ HighestApplied \notin VersionsOf(source) =>
                    last.migrations = <<>>

\* Current() answered none although a lower applied Version is in the Source.
C10_Witness ==
    /\ last.op = "Current" /\ CollectsSucceeded
    /\ HighestApplied \notin VersionsOf(source)
    /\ Applied \cap VersionsOf(source) # {}
    /\ last.migrations = <<>>
    /\ last.err = NoError

(* ------------------------- Apply and Revert calls ---------------------- *)

\* The database and the record of the call after an Executor call returned r.
Executed(op, m, fault, scriptFails, r) ==
    /\ tableExists' = r.table
    /\ indexExists' = r.index
    /\ ledger' = r.rows
    /\ schema' = r.schema
    /\ last' = [NoCall EXCEPT !.op = op, !.version = m.Version,
                              !.fault = fault,
                              !.before = ledger, !.beforeSchema = schema,
                              !.beforeTable = tableExists,
                              !.beforeIndex = indexExists,
                              !.err = r.err,
                              !.scriptFailed = r.ranScript /\ scriptFails,
                              !.ranScript = r.ranScript]

\* Gloat.Apply(m); the forward script and the statements of Insert may fail.
Apply(m, fault, scriptFails) ==
    Executed("Up", m, fault, scriptFails,
             GloatApply(tableExists, indexExists, ledger, schema, m, fault,
                        scriptFails))

\* Gloat.Revert(m); the reverse script and the statements of Remove may fail.
Revert(m, fault, scriptFails) ==
    Executed("Down", m, fault, scriptFails,
             GloatRevert(tableExists, indexExists, ledger, schema, m, fault,
                         scriptFails))

\* Gloat.Apply called with any migration of the Source.
CallApply ==
    \E i \in DOMAIN source, fault \in StoreFaults, scriptFails \in BOOLEAN :
        /\ Apply(source[i], fault, scriptFails)
        /\ UNCHANGED <<inputVars, driverVars>>

\* Gloat.Revert called with any migration of the Source.
CallRevert ==
    \E i \in DOMAIN source, fault \in StoreFaults, scriptFails \in BOOLEAN :
        /\ Revert(source[i], fault, scriptFails)
        /\ UNCHANGED <<inputVars, driverVars>>

InitExec ==
    /\ source \in SortedSources
    /\ InitDatabase
    /\ InitDrivers

NextExec ==
    \/ CallApply
    \/ CallRevert

\* Any sequence of Apply and Revert calls on a transactional backend.
SpecExec == InitExec /\ [][NextExec]_vars

\* The Source's migration the last call was made with.
LastMigration ==
    source[CHOOSE i \in DOMAIN source : source[i].Version = last.version]

\* C2: whenever Up fails because the forward script fails, the ledger after
\* the call equals the ledger before it, the Version is not newly recorded,
\* and an error is returned.
C2_UpScriptFailureKeepsLedger ==
    (last.op = "Up" /\ last.scriptFailed) =>
        /\ ledger = last.before
        /\ last.err # NoError

\* Up failed at its forward script for a Version that was not recorded.
C2_Witness ==
    /\ last.op = "Up" /\ last.scriptFailed
    /\ last.version \notin Applied
    /\ last.err = ScriptExecutionError

\* C3: after any sequence of Up and Down calls, failing at the script step
\* or at the ledger step or succeeding, the schema effect of a migration is
\* in place if and only if its Version is recorded in the ledger, once.
C3_SchemaMatchesLedger ==
    \A v \in Versions :
        /\ v \in schema <=> BagIn(v, ledger)
        /\ CopiesIn(v, ledger) <= 1

\* Up ran its script and then failed at the ledger step, and a Down that
\* succeeds is reached as well.
C3_Witness ==
    /\ last.op = "Up" /\ last.ranScript /\ ~last.scriptFailed
    /\ last.err = LedgerError
    /\ last.version \notin schema
    /\ Applied # {}

\* C4: Down on a migration whose DownSQL is empty fails with
\* IrreversibleError before any script runs and leaves the ledger, and the
\* schema, as they were.
C4_DownIrreversible ==
    (last.op = "Down" /\ Len(LastMigration.DownSQL) = 0) =>
        /\ last.err = IrreversibleError
        /\ ~last.ranScript
        /\ ledger = last.before
        /\ schema = last.beforeSchema

\* Down was refused for a recorded migration without a down script.
C4_Witness ==
    /\ last.op = "Down" /\ Len(LastMigration.DownSQL) = 0
    /\ last.version \in Applied
    /\ last.err = IrreversibleError

Stored(op, m, fault, r) ==
    /\ tableExists' = r.table
    /\ indexExists' = r.index
    /\ ledger' = r.rows
    /\ last' = [NoCall EXCEPT !.op = op, !.version = m.Version,
                              !.fault = fault,
                              !.before = ledger, !.beforeSchema = schema,
                              !.beforeTable = tableExists,
                              !.err = r.err]
    /\ UNCHANGED <<inputVars, schema, driverVars>>

\* Store.Insert(m, nil)
CallInsert ==
    \E v \in Versions, fault \in StoreFaults :
        LET m == SourceMigration(v, <<>>)
        IN Stored("Insert", m, fault,
                  StoreInsert(tableExists, indexExists, ledger, m, fault))

\* Store.Remove(m, nil)
CallRemove ==
    \E v \in Versions, fault \in StoreFaults :
        LET m == SourceMigration(v, <<>>)
        IN Stored("Remove", m, fault,
                  StoreRemove(tableExists, indexExists, ledger, m, fault))

\* Store.Collect()
CallCollect ==
    \E fault \in StoreFaults :
        LET r == StoreCollect(tableExists, indexExists, ledger, fault)
        IN /\ tableExists' = r.table
           /\ indexExists' = r.index
           /\ last' = [NoCall EXCEPT !.op = "Collect", !.fault = fault,
                                     !.before = ledger,
                                     !.beforeSchema = schema,
                                     !.beforeTable = tableExists,
                                     !.migrations = r.migrations,
                                     !.err = r.err]
           /\ UNCHANGED <<inputVars, ledger, schema, driverVars>>

\* A database that was never initialised.
InitStore ==
    /\ source = <<>>
    /\ tableExists = FALSE
    /\ indexExists = FALSE
    /\ ledger = EmptyBag
    /\ schema = {}
    /\ InitDrivers

NextStore ==
    \/ CallInsert
    \/ CallRemove
    \/ CallCollect

\* Any sequence of calls of the DatabaseStore.
SpecStore == InitStore /\ [][NextStore]_vars

\* C5: after any sequence of Insert and Remove calls the ledger holds at most
\* one record per Version; an Insert of a Version already recorded returns an
\* error, the duplicate version error when its statements run, and leaves
\* the ledger unchanged.
C5_AtMostOneRecordPerVersion ==
    /\ \A v \in Versions : CopiesIn(v, ledger) <= 1
    /\ (last.op = "Insert" /\ BagIn(last.version, last.before)) =>
          /\ last.err # NoError
          /\ last.fault = "none" => last.err = DuplicateVersionError
          /\ ledger = last.before

\* An Insert of a recorded Version was refused as a duplicate.
C5_Witness ==
    /\ last.op = "Insert" /\ BagIn(last.version, last.before)
    /\ last.err = DuplicateVersionError
    /\ Cardinality(Applied) >= 2

\* C6: Remove of a Version that is not recorded returns no error and leaves
\* the ledger unchanged, and Remove is idempotent: a second Remove of the
\* same Version returns what the first returned and leaves its ledger.
C6_RemoveAbsentAndIdempotent ==
    (last.op = "Remove" /\ last.fault = "none") =>
        LET m == SourceMigration(last.version, <<>>)
            again == StoreRemove(tableExists, indexExists, ledger, m, "none")
        IN /\ ~BagIn(last.version, last.before) =>
                 last.err = NoError /\ ledger = last.before
           /\ again.err = last.err
           /\ again.rows = ledger
           /\ ~BagIn(last.version, ledger)

\* A Remove of a Version that was not recorded, on a ledger with records.
C6_Witness ==
    /\ last.op = "Remove" /\ last.fault = "none"
    /\ ~BagIn(last.version, last.before)
    /\ last.before # EmptyBag
    /\ last.err = NoError

(* ------------------------ the command line drivers --------------------- *)

\* The head of a command: the query that plans its batch.  On an error the
\* command returns it; otherwise the driver goes on to process the batch.
Planned(d, cmd, version, r) ==
    /\ pc' = [pc EXCEPT ![d] = IF r.err = NoError THEN cmd ELSE "idle"]
    /\ queue' = [queue EXCEPT ![d] = r.migrations]
    /\ cmdErr' = [cmdErr EXCEPT ![d] = r.err]
    /\ batch' = [batch EXCEPT ![d] = [cmd |-> cmd, version |-> version,
                                      before |-> ledger,
                                      planned |-> r.migrations,
                                      done |-> <<>>, attempts |-> 0,
                                      prior |-> NoPrior]]
    /\ UNCHANGED tx

\* upCmd up to its loop: gl.Unapplied()
UpCmdStart(d) ==
    /\ pc[d] = "idle"
    /\ \E fault \in StoreFaults, sourceFails \in BOOLEAN :
          LET storeRes == StoreCollect(tableExists, indexExists, ledger, fault)
              r == UnappliedMigrations(storeRes,
                                       SourceCollect(source, sourceFails))
          IN /\ Queried("Unapplied", 0, fault, sourceFails, storeRes, r)
             /\ Planned(d, "up", 0, r)

\* migrateToCmd up to its loop: gl.AppliedAfter(version)
ToCmdStart(d) ==
    /\ pc[d] = "idle"
    /\ \E version \in Versions, fault \in StoreFaults, sourceFails \in BOOLEAN :
          LET storeRes == StoreCollect(tableExists, indexExists, ledger, fault)
              r == AppliedAfter(storeRes, SourceCollect(source, sourceFails),
                                version)
          IN /\ Queried("AppliedAfter", version, fault, sourceFails,
                        storeRes, r)
             /\ Planned(d, "to", version, r)

\* downCmd up to its Revert: gl.Current(); a nil migration ends the command.
DownCmdStart(d) ==
    /\ pc[d] = "idle"
    /\ \E fault \in StoreFaults, sourceFails \in BOOLEAN :
          LET storeRes == StoreCollect(tableExists, indexExists, ledger, fault)
              r == GloatCurrent(storeRes, SourceCollect(source, sourceFails))
          IN /\ Queried("Current", 0, fault, sourceFails, storeRes, r)
             /\ Planned(d, "down", 0, r)

\* The driver going on to the next item whatever the item returned.
ProcessedIgnoringError(d) ==
    /\ pc' = pc
    /\ queue' = [queue EXCEPT ![d] = Tail(queue[d])]
    /\ cmdErr' = [cmdErr EXCEPT ![d] = last'.err]
    /\ batch' = [batch EXCEPT
                    ![d].attempts = @ + 1,
                    ![d].done = IF last'.err = NoError
                                THEN Append(@, Head(queue[d]).Version)
                                ELSE @]
    /\ UNCHANGED inputVars

\* The driver after one item of its batch: the first error ends the command.
Processed(d) ==
    /\ pc' = [pc EXCEPT ![d] = IF last'.err = NoError THEN pc[d] ELSE "idle"]
    /\ queue' = [queue EXCEPT ![d] =
                    IF last'.err = NoError THEN Tail(queue[d]) ELSE <<>>]
    /\ cmdErr' = [cmdErr EXCEPT ![d] = last'.err]
    /\ batch' = [batch EXCEPT
                    ![d].attempts = @ + 1,
                    ![d].done = IF last'.err = NoError
                                THEN Append(@, Head(queue[d]).Version)
                                ELSE @]
    /\ UNCHANGED inputVars

\* upCmd leaving its loop after the first migration, whatever Apply returned.
UpCmdApplyOnce(d) ==
    /\ pc[d] = "up"
    /\ queue[d] # <<>>
    /\ \E fault \in StoreFaults, scriptFails \in BOOLEAN :
          Apply(Head(queue[d]), fault, scriptFails)
    /\ pc' = [pc EXCEPT ![d] = "idle"]
    /\ queue' = [queue EXCEPT ![d] = <<>>]
    /\ cmdErr' = [cmdErr EXCEPT ![d] = last'.err]
    /\ batch' = [batch EXCEPT
                    ![d].attempts = @ + 1,
                    ![d].done = IF last'.err = NoError
                                THEN Append(@, Head(queue[d]).Version)
                                ELSE @]
    /\ UNCHANGED <<inputVars, tx>>

\* One iteration of upCmd's loop: gl.Apply(migration)
UpCmdApply(d) ==
    /\ pc[d] = "up"
    /\ queue[d] # <<>>
    /\ \E fault \in StoreFaults, scriptFails \in BOOLEAN :
          Apply(Head(queue[d]), fault, scriptFails)
    /\ Processed(d)
    /\ UNCHANGED tx

\* One iteration of migrateToCmd's loop, or downCmd's single
\* gl.Revert(migration)
CmdRevert(d) ==
    /\ pc[d] \in {"to", "down"}
    /\ queue[d] # <<>>
    /\ \E fault \in StoreFaults, scriptFails \in BOOLEAN :
          Revert(Head(queue[d]), fault, scriptFails)
    /\ Processed(d)
    /\ UNCHANGED tx

\* The command returns nil once its batch is exhausted.
CmdDone(d) ==
    /\ pc[d] \in {"up", "to", "down"}
    /\ queue[d] = <<>>
    /\ pc' = [pc EXCEPT ![d] = "idle"]
    /\ cmdErr' = [cmdErr EXCEPT ![d] = NoError]
    /\ UNCHANGED <<inputVars, dbVars, queue, batch, tx, last>>

\* The single driver of the specification of one command after another.
Actor == CHOOSE d \in Drivers : \A e \in Drivers : d <= e

\* The command line reads its Source from a directory, which lists the
\* migrations in the ascending order of their fixed-width version prefixes.
Init ==
    /\ source \in SortedSources
    /\ InitDatabase
    /\ InitDrivers

Next ==
    \/ UpCmdStart(Actor)
    \/ ToCmdStart(Actor)
    \/ DownCmdStart(Actor)
    \/ UpCmdApply(Actor)
    \/ CmdRevert(Actor)
    \/ CmdDone(Actor)

\* One driver running the commands up, to and down one after another.
Spec == Init /\ [][Next]_vars

\* Driver d's last command was cmd and it returned nil.
Completed(d, cmd) ==
    /\ batch[d].cmd = cmd
    /\ pc[d] = "idle"
    /\ cmdErr[d] = NoError

\* C9 as claimed: for any ledger and Source, once every entry returned by
\* AppliedAfter(V) has been reverted in the returned order, no recorded
\* Version greater than V remains and every Version recorded at or below V
\* is still recorded.
C9_Claimed_RevertReachesBoundary ==
    Completed(Actor, "to") =>
        /\ {v \in Applied : v > batch[Actor].version} = {}
        /\ \A v \in BagToSet(batch[Actor].before) :
               v <= batch[Actor].version => v \in Applied

\* C9 as amended: once every entry returned by AppliedAfter(V) has been
\* reverted in the returned order, no recorded Version greater than V that
\* the Source still has remains, the recorded Versions greater than V that
\* the Source lacks are still recorded, and every Version recorded at or
\* below V is still recorded.
C9_RevertReachesBoundaryOfSource ==
    Completed(Actor, "to") =>
        Applied = {v \in BagToSet(batch[Actor].before) :
                      v <= batch[Actor].version \/ v \notin VersionsOf(source)}

\* A migrate-to that reverted two migrations and returned nil.
C9_Witness ==
    /\ Completed(Actor, "to")
    /\ Len(batch[Actor].planned) = 2
    /\ last.op = "Down"
    /\ Applied # {}

\* The Versions of a sequence of Versions.
RangeOf(seq) == {seq[i] : i \in DOMAIN seq}

\* C13: a batch of upCmd or migrateToCmd is fail-fast: the items that
\* succeeded are a prefix of the batch, at most one more item was attempted,
\* the ledger is the ledger of the batch's start with exactly the succeeded
\* items applied (up) or removed (to), and once an item has failed the
\* command has ended with that item's error and attempts nothing more.
C13_BatchFailFast ==
    LET b == batch[Actor]
    IN b.cmd \in {"up", "to"} =>
        /\ Len(b.done) <= Len(b.planned)
        /\ \A i \in DOMAIN b.done : b.done[i] = b.planned[i].Version
        /\ b.attempts \in {Len(b.done), Len(b.done) + 1}
        /\ ledger = IF b.cmd = "up"
                    THEN SetToBag(BagToSet(b.before) \cup RangeOf(b.done))
                    ELSE SetToBag(BagToSet(b.before) \ RangeOf(b.done))
        /\ b.attempts > Len(b.done) =>
              /\ pc[Actor] = "idle"
              /\ queue[Actor] = <<>>
              /\ cmdErr[Actor] # NoError
              /\ cmdErr[Actor] = last.err

\* An up batch whose second item failed after its first was committed, with
\* a third item left unattempted.
C13_Witness ==
    LET b == batch[Actor]
    IN /\ b.cmd = "up"
       /\ Len(b.done) >= 1
       /\ b.attempts = Len(b.done) + 1
       /\ Len(b.planned) > b.attempts
       /\ BagIn(b.done[1], ledger)
       /\ ~BagIn(b.done[1], b.before)
       /\ ~BagIn(b.planned[b.attempts].Version, ledger)

(* -------------------------- drivers racing on up ----------------------- *)

\* The Sources of the race: the reverse scripts play no part in up.
RaceSources ==
    {s \in SortedSources : \A i \in DOMAIN s : s[i].DownSQL = <<>>}

\* The first half of Executor.Up for the head of the driver's batch: the
\* transaction is opened and the forward script runs in it. A failing script
\* ends the unit of work and the command; otherwise the transaction stays
\* open, with nothing of it visible to the other drivers.
RaceUpScript(d) ==
    /\ pc[d] = "up"
    /\ queue[d] # <<>>
    /\ tx[d] = "none"
    /\ \/ /\ Apply(Head(queue[d]), "none", TRUE)
          /\ Processed(d)
          /\ UNCHANGED tx
       \/ /\ tx' = [tx EXCEPT ![d] = "open"]
          /\ UNCHANGED <<inputVars, dbVars, pc, queue, cmdErr, batch, last>>

\* The second half of Executor.Up: Store.Insert inside the open transaction
\* and the commit. The ledger's key on version lets the insert through only
\* when no committed record of the Version exists; a failed insert rolls the
\* unit of work back.
RaceUpInsert(d) ==
    /\ pc[d] = "up"
    /\ queue[d] # <<>>
    /\ tx[d] = "open"
    /\ \E fault \in StoreFaults : Apply(Head(queue[d]), fault, FALSE)
    /\ Processed(d)
    /\ tx' = [tx EXCEPT ![d] = "none"]

\* upCmd up to its loop for a driver that has not run yet, its gl.Unapplied()
\* reading Store and Source without a failure.
RaceUpStart(d) ==
    /\ pc[d] = "idle"
    /\ batch[d].cmd = "none"
    /\ LET storeRes == StoreCollect(tableExists, indexExists, ledger, "none")
           r == UnappliedMigrations(storeRes, SourceCollect(source, FALSE))
       IN /\ Queried("Unapplied", 0, "none", FALSE, storeRes, r)
          /\ Planned(d, "up", 0, r)

InitRace ==
    /\ source \in RaceSources
    /\ InitDatabase
    /\ InitDrivers

NextRace ==
    \E d \in Drivers :
        \/ RaceUpStart(d)
        \/ RaceUpScript(d)
        \/ RaceUpInsert(d)
        \/ CmdDone(d)

\* Several drivers each running up once against the same Store, interleaved
\* at the steps of their units of work.
SpecRace == InitRace /\ [][NextRace]_vars

\* C14: with drivers running up concurrently each Version is committed to
\* the ledger at most once: no Version has two records, no two drivers both
\* count the same Version as applied by them, an Up whose Version is already
\* recorded when it inserts fails and leaves ledger and schema as they were,
\* with LedgerError when its script ran and the driver reported nothing, and
\* an Up whose Version is not yet recorded commits unless something fails.
C14_CommittedAtMostOnce ==
    /\ \A v \in Versions : CopiesIn(v, ledger) <= 1
    /\ \A d, e \in Drivers :
          d # e => RangeOf(batch[d].done) \cap RangeOf(batch[e].done) = {}
    /\ (last.op = "Up" /\ BagIn(last.version, last.before)) =>
          /\ last.err # NoError
          /\ ledger = last.before
          /\ schema = last.beforeSchema
          /\ (~last.scriptFailed /\ last.fault = "none") =>
                last.err = LedgerError
    /\ (last.op = "Up" /\ ~BagIn(last.version, last.before)
          /\ ~last.scriptFailed /\ last.fault = "none") =>
          /\ last.err = NoError
          /\ CopiesIn(last.version, ledger) = 1

\* Two drivers planned the same Version from the same ledger; one committed
\* it and the other's insert then failed, leaving one record.
C14_Witness ==
    \E d, e \in Drivers :
        /\ d # e
        /\ batch[d].cmd = "up" /\ batch[e].cmd = "up"
        /\ batch[d].before = batch[e].before
        /\ last.op = "Up" /\ last.err = LedgerError
        /\ ~BagIn(last.version, batch[d].before)
        /\ last.version \in RangeOf(batch[e].done)
        /\ last.version \in VersionsOf(batch[d].planned)
        /\ last.version \notin RangeOf(batch[d].done)
        /\ cmdErr[d] = LedgerError
        /\ CopiesIn(last.version, ledger) = 1

(* --------------------- the queries of the Source alone ----------------- *)

\* The record of a query that only reads the Source, with what the call
\* before it returned when that call succeeded.
SourceQueried(op, sourceFails, r) ==
    /\ last' = [NoCall EXCEPT !.op = op, !.sourceFails = sourceFails,
                              !.before = ledger, !.beforeSchema = schema,
                              !.beforeTable = tableExists,
                              !.migrations = r.migrations, !.err = r.err,
                              !.prevOp = IF last.err = NoError THEN last.op
                                         ELSE "failed",
                              !.prevMigrations = last.migrations]
    /\ UNCHANGED <<inputVars, dbVars, driverVars>>

\* Gloat.Latest
CallLatest ==
    \E sourceFails \in BOOLEAN :
        SourceQueried("Latest", sourceFails,
                      GloatLatest(SourceCollect(source, sourceFails)))

\* Gloat.Present
CallPresent ==
    \E sourceFails \in BOOLEAN :
        SourceQueried("Present", sourceFails,
                      GloatPresent(SourceCollect(source, sourceFails)))

InitSource ==
    /\ source \in Sources
    /\ InitDatabase
    /\ InitDrivers

NextSource ==
    \/ CallLatest
    \/ CallPresent

\* The queries Latest and Present over every enumeration of a Source.
SpecSource == InitSource /\ [][NextSource]_vars

\* The highest Version of the Source, 0 when the Source is empty.
HighestAvailable ==
    IF source = <<>> THEN 0
    ELSE CHOOSE v \in VersionsOf(source) : \A w \in VersionsOf(source) : w <= v

\* C11: Latest() returns the Source's entry with the highest Version,
\* whatever the order in which the Source enumerates, and none without error
\* when the Source is empty.
C11_LatestHighestAvailable ==
    (last.op = "Latest" /\ ~last.sourceFails) =>
        /\ last.err = NoError
        /\ source = <<>> => last.migrations = <<>>
        /\ source # <<>> =>
              /\ Len(last.migrations) = 1
              /\ last.migrations[1] \in Available
              /\ last.migrations[1].Version = HighestAvailable

\* Latest() answered the highest Version of a Source that enumerates a lower
\* Version last.
C11_Witness ==
    /\ last.op = "Latest" /\ ~last.sourceFails
    /\ Len(source) >= 2
    /\ source[Len(source)].Version # HighestAvailable
    /\ last.migrations[1].Version = HighestAvailable

\* C12: Present() returns every entry of the Source in ascending Version
\* order, and a Present() that follows a Present() with no write in between
\* returns the identical sequence.
C12_PresentAscendingIdempotent ==
    (last.op = "Present" /\ ~last.sourceFails) =>
        /\ last.err = NoError
        /\ Len(last.migrations) = Len(source)
        /\ {last.migrations[i] : i \in DOMAIN last.migrations} = Available
        /\ Ascending(VersionSeq(last.migrations))
        /\ last.prevOp = "Present" => last.migrations = last.prevMigrations

\* Two Present() calls in a row over a Source of two or more entries that
\* does not enumerate in ascending order.
C12_Witness ==
    /\ last.op = "Present" /\ ~last.sourceFails
    /\ last.prevOp = "Present"
    /\ Len(last.migrations) >= 2
    /\ ~Ascending(VersionSeq(source))

\* C20: Collect, Insert and Remove first ensure the ledger structure: on a
\* never-initialised database each succeeds and leaves the structure in
\* place, Collect returning the empty applied set, Insert recording its
\* Version and Remove finding nothing to remove; and when creating the table
\* or the index fails the operation returns that error, returns no migration
\* and leaves the ledger records as they were.
C20_StoreEnsuresLedgerStructure ==
    last.op \in {"Collect", "Insert", "Remove"} =>
        /\ (~last.beforeTable /\ last.fault = "none") =>
              /\ last.err = NoError
              /\ tableExists /\ indexExists
              /\ last.op = "Collect" =>
                    last.migrations = <<>> /\ ledger = EmptyBag
              /\ last.op = "Insert" => ledger = SetToBag({last.version})
              /\ last.op = "Remove" => ledger = EmptyBag
        /\ last.fault \in {"createTable", "createIndex"} =>
              /\ last.err = DriverError
              /\ last.migrations = <<>>
              /\ ledger = last.before
        /\ last.fault = "createTable" => tableExists = last.beforeTable

\* Collect on a never-initialised database succeeded with the empty set and
\* left the table and its index behind.
C20_Witness ==
    /\ last.op = "Collect"
    /\ ~last.beforeTable
    /\ last.fault = "none"
    /\ last.err = NoError
    /\ last.migrations = <<>>
    /\ tableExists /\ indexExists

(* ------------------------------ the set algebra ------------------------ *)

\* The collections of a Store in the order Collect scans them (descending
\* Version), each entry with an apply time.
AppliedCollections ==
    UNION {{[i \in DOMAIN f |->
                [StoreMigration(f[i]) EXCEPT !.AppliedAt = t[f[i]]]] :
               f \in {g \in Orderings(S) : Descending(g)}, t \in [S -> Times]} :
           S \in SUBSET Versions}

\* The same collections in every order, as a caller may hand them to a sort.
UnorderedCollections ==
    UNION {{[i \in DOMAIN f |->
                [StoreMigration(f[i]) EXCEPT !.AppliedAt = t[f[i]]]] :
               f \in Orderings(S), t \in [S -> Times]} :
           S \in SUBSET Versions}

\* The collections of a Source in every order of enumeration: fresh from
\* Collect, with the zero time, or with the latest time on every entry.
AvailableCollections ==
    UNION {{[i \in DOMAIN f |->
                [SourceMigration(f[i], <<"down">>) EXCEPT !.AppliedAt = t]] :
               f \in Orderings(S), t \in {ZeroTime, MaxTime}} :
           S \in SUBSET Versions}

\* A successful Collect of the collection c.
Collected(c) == [migrations |-> c, err |-> NoError]

\* The record of the call of the set algebra that is made on the drawn
\* collections, a and b being the receiver and the argument of the call.
AlgebraCalled(op, a, b, r) ==
    /\ last.op = "none"
    /\ last' = [NoCall EXCEPT !.op = op, !.recv = a, !.arg = b,
                              !.migrations = r]
    /\ UNCHANGED <<source, dbVars, driverVars>>

\* recv.Except(arg)
CallExcept ==
    /\ AlgebraCalled("Except", recv, arg, Except(recv, arg))
    /\ UNCHANGED <<recv, arg>>

\* recv.Intersect(arg)
CallIntersect ==
    /\ AlgebraCalled("Intersect", recv, arg, Intersect(recv, arg))
    /\ arg' = IntersectWrites(recv, arg)
    /\ UNCHANGED recv

\* recv.Except(recv)
CallExceptSelf ==
    /\ AlgebraCalled("ExceptSelf", recv, recv, Except(recv, recv))
    /\ UNCHANGED <<recv, arg>>

\* recv.Intersect(recv)
CallIntersectSelf ==
    /\ AlgebraCalled("IntersectSelf", recv, recv, Intersect(recv, recv))
    /\ recv' = IntersectWrites(recv, recv)
    /\ UNCHANGED arg

\* recv.Sort(), in place.
CallSort ==
    /\ AlgebraCalled("Sort", recv, <<>>, Sort(recv))
    /\ recv' = Sort(recv)
    /\ UNCHANGED arg

\* recv.ReverseSort(), in place.
CallReverseSort ==
    /\ AlgebraCalled("ReverseSort", recv, <<>>, ReverseSort(recv))
    /\ recv' = ReverseSort(recv)
    /\ UNCHANGED arg

\* Gloat.Current over a Store that collected recv and a Source that collected
\* arg: Migrations.Current sorts recv in place, and the entry of arg that is
\* returned has had the current migration's AppliedAt assigned to it.
CallCurrentOver ==
    LET r == GloatCurrent(Collected(recv), Collected(arg))
    IN /\ AlgebraCalled("Current", recv, arg, r.migrations)
       /\ recv' = Sort(recv)
       /\ arg' = IF r.migrations = <<>> THEN arg
                 ELSE LET hit == CHOOSE k \in DOMAIN arg :
                                    /\ arg[k].Version = r.migrations[1].Version
                                    /\ \A j \in DOMAIN arg :
                                          arg[j].Version = arg[k].Version
                                              => j <= k
                      IN [arg EXCEPT ![hit] = r.migrations[1]]

\* AppliedAfter(store, source, version) over a Store that collected recv and
\* a Source that collected arg. The applied entries are copied into a slice
\* of their own before it is sorted, so recv keeps its order; the entries
\* returned are the Source's objects with the applied entry's AppliedAt
\* assigned by Intersect.
CallAppliedAfterOver ==
    \E version \in Versions :
        LET r == AppliedAfter(Collected(recv), Collected(arg), version)
        IN /\ last.op = "none"
           /\ last' = [NoCall EXCEPT !.op = "AppliedAfter",
                                     !.version = version,
                                     !.recv = recv, !.arg = arg,
                                     !.migrations = r.migrations,
                                     !.err = r.err]
           /\ arg' = [i \in DOMAIN arg |->
                        IF arg[i].Version \in VersionsOf(r.migrations)
                        THEN r.migrations[CHOOSE k \in DOMAIN r.migrations :
                                 r.migrations[k].Version = arg[i].Version]
                        ELSE arg[i]]
           /\ UNCHANGED <<recv, source, dbVars, driverVars>>

InitAlgebra ==
    /\ \/ /\ recv \in AppliedCollections
          /\ arg \in AvailableCollections
       \/ /\ recv \in UnorderedCollections
          /\ arg = <<>>
    /\ source = <<>>
    /\ tableExists = FALSE /\ indexExists = FALSE
    /\ ledger = EmptyBag /\ schema = {}
    /\ pc = [d \in Drivers |-> "idle"]
    /\ queue = [d \in Drivers |-> <<>>]
    /\ cmdErr = [d \in Drivers |-> NoError]
    /\ batch = [d \in Drivers |-> NoBatch]
    /\ tx = [d \in Drivers |-> "none"]
    /\ last = NoCall

NextAlgebra ==
    \/ CallExcept
    \/ CallIntersect
    \/ CallExceptSelf
    \/ CallIntersectSelf
    \/ CallSort
    \/ CallReverseSort
    \/ CallCurrentOver
    \/ CallAppliedAfterOver

\* The set algebra applied to every pair of bounded collections.
SpecAlgebra == InitAlgebra /\ [][NextAlgebra]_vars

\* The entries of a collection.
Entries(c) == {c[i] : i \in DOMAIN c}

\* The entry of the collection c with Version v.
EntryAt(c, v) == c[CHOOSE i \in DOMAIN c : c[i].Version = v]

\* The entries of r follow one another as their Versions do in c.
KeepsOrderOf(r, c) ==
    \A i, j \in DOMAIN r :
        i < j => \E k, l \in DOMAIN c :
                    /\ k < l
                    /\ c[k].Version = r[i].Version
                    /\ c[l].Version = r[j].Version

\* The sequence s back to front.
Reverse(s) == [i \in DOMAIN s |-> s[Len(s) + 1 - i]]

\* a was applied before b, or at the same time with the lower Version.
Earlier(a, b) ==
    \/ a.AppliedAt < b.AppliedAt
    \/ a.AppliedAt = b.AppliedAt /\ a.Version < b.Version

\* C15: A.Except(B) returns exactly the entries of B whose Version is not in
\* A, each once and in B's order, so no Version of A is in the result, and
\* it leaves A, B and their entries as they were.
C15_ExceptExact ==
    last.op = "Except" =>
        /\ Entries(last.migrations) =
              {x \in Entries(last.arg) : x.Version \notin VersionsOf(last.recv)}
        /\ Len(last.migrations) = Cardinality(Entries(last.migrations))
        /\ KeepsOrderOf(last.migrations, last.arg)
        /\ VersionsOf(last.migrations) \cap VersionsOf(last.recv) = {}
        /\ recv = last.recv
        /\ arg = last.arg

\* Except dropped an entry of B and returned two others in B's order, which
\* is not the ascending one.
C15_Witness ==
    /\ last.op = "Except"
    /\ Len(last.migrations) >= 2
    /\ Len(last.arg) > Len(last.migrations)
    /\ ~Ascending(VersionSeq(last.migrations))

\* C16: A.Intersect(B) returns exactly the entries of B whose Version is in
\* A, each once and in B's order, and each returned entry is B's entry with
\* the apply time of A's entry of the same Version.
C16_IntersectExact ==
    last.op = "Intersect" =>
        /\ VersionsOf(last.migrations) =
              VersionsOf(last.arg) \cap VersionsOf(last.recv)
        /\ Len(last.migrations) = Cardinality(VersionsOf(last.migrations))
        /\ KeepsOrderOf(last.migrations, last.arg)
        /\ \A i \in DOMAIN last.migrations :
              LET v == last.migrations[i].Version
              IN last.migrations[i] =
                    [EntryAt(last.arg, v) EXCEPT
                        !.AppliedAt = EntryAt(last.recv, v).AppliedAt]

\* Intersect dropped an entry of B and returned one whose apply time in B
\* differed from the one in A.
C16_Witness ==
    /\ last.op = "Intersect"
    /\ Len(last.arg) > Len(last.migrations)
    /\ \E i \in DOMAIN last.migrations :
          LET v == last.migrations[i].Version
          IN /\ EntryAt(last.arg, v).AppliedAt # EntryAt(last.recv, v).AppliedAt
             /\ last.migrations[i].AppliedAt = EntryAt(last.recv, v).AppliedAt
             /\ last.migrations[i].Path = EntryAt(last.arg, v).Path

\* C17 as claimed: Except and Intersect are empty when either input is
\* empty, A.Except(A) is empty and A.Intersect(A) is A unchanged.
C17_Claimed_EmptyForEitherEmptyInput ==
    /\ (last.op \in {"Except", "Intersect"}
          /\ (last.recv = <<>> \/ last.arg = <<>>)) =>
          /\ last.migrations = <<>>
          /\ last.err = NoError
    /\ last.op = "ExceptSelf" => last.migrations = <<>>
    /\ last.op = "IntersectSelf" => last.migrations = last.recv

\* C17: Intersect is empty when either input is empty; Except is empty when
\* its argument is empty and returns its whole argument when its receiver is
\* empty; neither reports an error; A.Except(A) is empty and A.Intersect(A)
\* is A with every entry unchanged.
C17_EmptyInputsAndSelf ==
    /\ (last.op = "Intersect" /\ (last.recv = <<>> \/ last.arg = <<>>)) =>
          last.migrations = <<>>
    /\ (last.op = "Except" /\ last.arg = <<>>) => last.migrations = <<>>
    /\ (last.op = "Except" /\ last.recv = <<>>) => last.migrations = last.arg
    /\ last.op \in {"Except", "Intersect", "ExceptSelf", "IntersectSelf"} =>
          last.err = NoError
    /\ last.op = "ExceptSelf" => last.migrations = <<>>
    /\ last.op = "IntersectSelf" =>
          /\ last.migrations = last.recv
          /\ recv = last.recv

\* Except on an empty receiver returned its argument of two or more entries.
C17_Witness ==
    /\ last.op = "Except"
    /\ last.recv = <<>>
    /\ Len(last.arg) >= 2
    /\ last.migrations = last.arg

\* C18 as claimed: Sort orders by ascending Version and ReverseSort gives
\* the reverse of that order.
C18_Claimed_SortedByVersion ==
    /\ last.op = "Sort" => Ascending(VersionSeq(last.migrations))
    /\ last.op = "ReverseSort" =>
          /\ Descending(VersionSeq(last.migrations))
          /\ last.migrations = Reverse(Sort(last.recv))

\* C18: over a collection of distinct Versions Sort keeps every entry and
\* orders by apply time first and by Version among entries of the same apply
\* time, and ReverseSort produces exactly the reverse of that order.
C18_SortedByTimeThenVersion ==
    /\ last.op \in {"Sort", "ReverseSort"} =>
          /\ Entries(last.migrations) = Entries(last.recv)
          /\ Len(last.migrations) = Len(last.recv)
          /\ recv = last.migrations
    /\ last.op = "Sort" =>
          \A i, j \in DOMAIN last.migrations :
              i < j => Earlier(last.migrations[i], last.migrations[j])
    /\ last.op = "ReverseSort" =>
          /\ \A i, j \in DOMAIN last.migrations :
                i < j => Earlier(last.migrations[j], last.migrations[i])
          /\ last.migrations = Reverse(Sort(last.recv))

\* ReverseSort of three entries given in neither order put a lower Version
\* with a later apply time ahead of a higher Version.
C18_Witness ==
    /\ last.op = "ReverseSort"
    /\ Len(last.migrations) >= 3
    /\ last.recv # last.migrations
    /\ last.recv # Reverse(last.migrations)
    /\ ~Descending(VersionSeq(last.migrations))

ToCmdUpReturns(d, err) ==
    cmdErr' = [cmdErr EXCEPT ![d] = NoError]

\* toCmd with the tag the database is already at, up to the loop of the
\* upCmd it calls: gl.Unapplied()
ToCmdUpStart(d) ==
    /\ pc[d] = "idle"
    /\ \E fault \in StoreFaults, sourceFails \in BOOLEAN :
          LET storeRes == StoreCollect(tableExists, indexExists, ledger, fault)
              r == UnappliedMigrations(storeRes,
                                       SourceCollect(source, sourceFails))
          IN /\ Queried("Unapplied", 0, fault, sourceFails, storeRes, r)
             /\ pc' = [pc EXCEPT ![d] = IF r.err = NoError THEN "toUp"
                                        ELSE "idle"]
             /\ queue' = [queue EXCEPT ![d] = r.migrations]
             /\ ToCmdUpReturns(d, r.err)
             /\ batch' = [batch EXCEPT ![d] =
                             [cmd |-> "toUp", version |-> 0,
                              before |-> ledger, planned |-> r.migrations,
                              done |-> <<>>, attempts |-> 0,
                              prior |-> NoPrior]]
             /\ UNCHANGED tx

\* One iteration of the loop of the upCmd that toCmd calls.
ToCmdUpApply(d) ==
    /\ pc[d] = "toUp"
    /\ queue[d] # <<>>
    /\ \E fault \in StoreFaults, scriptFails \in BOOLEAN :
          Apply(Head(queue[d]), fault, scriptFails)
    /\ pc' = [pc EXCEPT ![d] = IF last'.err = NoError THEN pc[d] ELSE "idle"]
    /\ queue' = [queue EXCEPT ![d] =
                    IF last'.err = NoError THEN Tail(queue[d]) ELSE <<>>]
    /\ ToCmdUpReturns(d, last'.err)
    /\ batch' = [batch EXCEPT
                    ![d].attempts = @ + 1,
                    ![d].done = IF last'.err = NoError
                                THEN Append(@, Head(queue[d]).Version)
                                ELSE @]
    /\ UNCHANGED <<inputVars, tx>>

\* The nested upCmd has exhausted its batch and toCmd returns nil.
ToCmdUpDone(d) ==
    /\ pc[d] = "toUp"
    /\ queue[d] = <<>>
    /\ pc' = [pc EXCEPT ![d] = "idle"]
    /\ ToCmdUpReturns(d, NoError)
    /\ UNCHANGED <<inputVars, dbVars, queue, batch, tx, last>>

NextTag ==
    \/ UpCmdStart(Actor)
    \/ UpCmdApply(Actor)
    \/ DownCmdStart(Actor)
    \/ ToCmdStart(Actor)
    \/ CmdRevert(Actor)
    \/ CmdDone(Actor)
    \/ ToCmdUpStart(Actor)
    \/ ToCmdUpApply(Actor)
    \/ ToCmdUpDone(Actor)

\* One driver running the commands of cmd/gloat one after another, its `to`
\* either reverting down to a boundary or, at the boundary, running up.
SpecTag == Init /\ [][NextTag]_vars

\* C21: every error of a query or of a batch step reaches the caller: a
\* query whose Collect fails returns an error, and a command whose last step
\* failed has ended with that step's error.
C21_Claimed_ErrorsReachCaller ==
    /\ (last.op \in {"Unapplied", "AppliedAfter", "Current"}
          /\ last.fault # "none") => last.err = DriverError
    /\ (last.err # NoError /\ batch[Actor].cmd # "none") =>
          /\ pc[Actor] = "idle"
          /\ cmdErr[Actor] = last.err

(* ----------------------- reading a migration directory ------------------ *)

ParseError == "parse error"

\* The characters of a directory name before its first "_", and the value
\* strconv.ParseInt gives to those that are digits.
DigitOf == [c \in {"0", "1", "2"} |-> IF c = "0" THEN 0 ELSE IF c = "1" THEN 1 ELSE 2]

PrefixChars == DOMAIN DigitOf \cup {"x"}

Prefixes == UNION {[1..n -> PrefixChars] : n \in 0..MaxDigits}

RECURSIVE ParseInt(_)
\* strconv.ParseInt(s, 10, 64) of a string without sign: an error for the
\* empty string and for any character that is not a digit.
ParseInt(str) ==
    IF str = <<>> THEN [value |-> 0, err |-> ParseError]
    ELSE IF str[Len(str)] \notin DOMAIN DigitOf
    THEN [value |-> 0, err |-> ParseError]
    ELSE IF Len(str) = 1
    THEN [value |-> DigitOf[str[1]], err |-> NoError]
    ELSE LET high == ParseInt(SubSeq(str, 1, Len(str) - 1))
         IN IF high.err # NoError THEN high
            ELSE [value |-> 10 * high.value + DigitOf[str[Len(str)]],
                  err |-> NoError]

\* versionFromPath
versionFromPath(path) == ParseInt(path.prefix)

\* What read() finds for one file of the directory: no readable file, an
\* empty file, or a file with content.
Files ==
    {[ok |-> FALSE, bytes |-> <<>>], [ok |-> TRUE, bytes |-> <<>>],
     [ok |-> TRUE, bytes |-> <<"sql">>]}

\* options.json: missing, well-formed or malformed.
OptionsFiles ==
    {[ok |-> FALSE, bytes |-> <<>>], [ok |-> TRUE, bytes |-> <<"{}">>],
     [ok |-> TRUE, bytes |-> <<"{">>]}

\* The migration directories MigrationFromBytes is pointed at.
Directories ==
    [prefix : Prefixes, up : Files, down : Files, options : OptionsFiles]

\* read(path): the bytes and the error.
ReadFile(file) ==
    IF file.ok THEN [bytes |-> file.bytes, err |-> NoError]
    ELSE [bytes |-> <<>>, err |-> ReadError]

\* parseMigrationOptions: the default options for nil, the options of a
\* well-formed payload, an error for a malformed one.
parseMigrationOptions(optionsJSON) ==
    IF optionsJSON = <<>> THEN [options |-> "default", err |-> NoError]
    ELSE IF optionsJSON = <<"{}">> THEN [options |-> "parsed", err |-> NoError]
    ELSE [options |-> "none", err |-> ParseError]

\* MigrationFromBytes returning the error of reading down.sql.
MigrationFromBytesStrictDown(path) ==
    LET version == versionFromPath(path)
        upSQL == ReadFile(path.up)
        downSQL == ReadFile(path.down)
        optionsJSON == ReadFile(path.options)
        options == parseMigrationOptions(
                       IF optionsJSON.err # NoError THEN <<>>
                       ELSE optionsJSON.bytes)
    IN IF version.err # NoError
       THEN [migrations |-> <<>>, err |-> version.err]
       ELSE IF upSQL.err # NoError
       THEN [migrations |-> <<>>, err |-> upSQL.err]
       ELSE IF downSQL.err # NoError
       THEN [migrations |-> <<>>, err |-> downSQL.err]
       ELSE IF options.err # NoError
       THEN [migrations |-> <<>>, err |-> options.err]
       ELSE [migrations |->
                 <<[UpSQL |-> upSQL.bytes, DownSQL |-> downSQL.bytes,
                    Path |-> path.prefix, Version |-> version.value,
                    Options |-> options.options, AppliedAt |-> ZeroTime]>>,
             err |-> NoError]

\* MigrationFromBytes: <<>> for a nil migration, <<m>> otherwise.
MigrationFromBytes(path) ==
    LET version == versionFromPath(path)
        upSQL == ReadFile(path.up)
        downSQL == ReadFile(path.down)
        optionsJSON == ReadFile(path.options)
        options == parseMigrationOptions(
                       IF optionsJSON.err # NoError THEN <<>>
                       ELSE optionsJSON.bytes)
    IN IF version.err # NoError
       THEN [migrations |-> <<>>, err |-> version.err]
       ELSE IF upSQL.err # NoError
       THEN [migrations |-> <<>>, err |-> upSQL.err]
       ELSE IF options.err # NoError
       THEN [migrations |-> <<>>, err |-> options.err]
       ELSE [migrations |->
                 <<[UpSQL |-> upSQL.bytes, DownSQL |-> downSQL.bytes,
                    Path |-> path.prefix, Version |-> version.value,
                    Options |-> options.options, AppliedAt |-> ZeroTime]>>,
             err |-> NoError]

\* MigrationFromBytes called on the drawn directory.
CallMigrationFromBytes ==
    LET r == MigrationFromBytes(arg[1])
    IN /\ last.op = "none"
       /\ last' = [NoCall EXCEPT !.op = "MigrationFromBytes", !.arg = arg,
                                 !.migrations = r.migrations, !.err = r.err]
       /\ UNCHANGED <<inputVars, dbVars, driverVars>>

InitRead ==
    /\ \E dir \in Directories : arg = <<dir>>
    /\ recv = <<>>
    /\ source = <<>>
    /\ tableExists = FALSE /\ indexExists = FALSE
    /\ ledger = EmptyBag /\ schema = {}
    /\ pc = [d \in Drivers |-> "idle"]
    /\ queue = [d \in Drivers |-> <<>>]
    /\ cmdErr = [d \in Drivers |-> NoError]
    /\ batch = [d \in Drivers |-> NoBatch]
    /\ tx = [d \in Drivers |-> "none"]
    /\ last = NoCall

NextRead == CallMigrationFromBytes

\* MigrationFromBytes applied to every bounded migration directory.
SpecRead == InitRead /\ [][NextRead]_vars

\* The prefix is a non-empty string of digits.
Numeric(prefix) ==
    /\ prefix # <<>>
    /\ \A i \in DOMAIN prefix : prefix[i] \in {"0", "1", "2"}

\* C22: MigrationFromBytes returns an error and no migration when up.sql
\* cannot be read or the version prefix is not a number, and when only
\* down.sql cannot be read it returns a migration with the forward script,
\* the parsed Version and an empty DownSQL, which is not Reversible.
C22_ReadFailsWithoutUpOrVersion ==
    last.op = "MigrationFromBytes" =>
        LET dir == last.arg[1]
        IN /\ (~dir.up.ok \/ ~Numeric(dir.prefix)) =>
                 /\ last.err # NoError
                 /\ last.migrations = <<>>
           /\ (dir.up.ok /\ Numeric(dir.prefix) /\ ~dir.down.ok
                 /\ dir.options # [ok |-> TRUE, bytes |-> <<"{">>]) =>
                 /\ last.err = NoError
                 /\ Len(last.migrations) = 1
                 /\ last.migrations[1].UpSQL = dir.up.bytes
                 /\ last.migrations[1].DownSQL = <<>>
                 /\ ~Reversible(last.migrations[1])
                 /\ ParseInt(dir.prefix).value = last.migrations[1].Version

\* A directory with a two-digit prefix, a forward script and no readable
\* down.sql was read as an irreversible migration.
C22_Witness ==
    /\ last.op = "MigrationFromBytes"
    /\ Len(last.arg[1].prefix) = 2
    /\ last.arg[1].up = [ok |-> TRUE, bytes |-> <<"sql">>]
    /\ ~last.arg[1].down.ok
    /\ last.err = NoError
    /\ last.migrations[1].Version = 12
    /\ last.migrations[1].DownSQL = <<>>

(* ------------------- the order and content of AppliedAfter ------------- *)

\* C24: when V is applied and the returned migrations all have the same
\* apply time, AppliedAfter(V) returns them newest first: the first has the
\* highest Version and the Versions strictly decrease along the result.
C24_AppliedAfterNewestFirst ==
    (/\ last.op = "AppliedAfter"
     /\ last.version \in VersionsOf(last.recv)
     /\ \A i, j \in DOMAIN last.migrations :
           last.migrations[i].AppliedAt = last.migrations[j].AppliedAt) =>
        /\ last.err = NoError
        /\ \A i \in DOMAIN last.migrations :
              last.migrations[1].Version >= last.migrations[i].Version
        /\ \A i \in DOMAIN last.migrations :
              i > 1 => last.migrations[i - 1].Version
                          > last.migrations[i].Version

\* AppliedAfter(V1) over the applied [V3, V2, V1], where V1 has another
\* apply time than the two returned, has V3 at index 1 of the TLA+ sequence.
C24_Witness ==
    /\ last.op = "AppliedAfter"
    /\ Len(last.recv) = 3
    /\ last.version = last.recv[3].Version
    /\ last.recv[3].AppliedAt # last.recv[1].AppliedAt
    /\ Len(last.migrations) = 2
    /\ last.migrations[1].AppliedAt = last.migrations[2].AppliedAt
    /\ last.migrations[1].Version = last.recv[1].Version

\* C25: every migration AppliedAfter(V) returns is the Source's entry of its
\* Version, with the Source's scripts, so that it is Reversible exactly when
\* the Source has a down script for it; the returned Versions are the
\* applied Versions above V that the Source has, and an applied Version
\* above V that the Source lacks is left out without an error.
C25_AppliedAfterReturnsSourceEntries ==
    (last.op = "AppliedAfter" /\ CollectsSucceeded
        /\ last.version \in Applied) =>
        /\ last.err = NoError
        /\ \A i \in DOMAIN last.migrations :
              \E k \in DOMAIN source :
                  /\ last.migrations[i] = source[k]
                  /\ last.migrations[i].UpSQL = <<"up", source[k].Version>>
                  /\ Reversible(last.migrations[i])
                        <=> source[k].DownSQL = <<"down">>
        /\ VersionsOf(last.migrations) =
              {v \in Applied : v > last.version} \cap VersionsOf(source)
        /\ \A v \in Applied \ VersionsOf(source) :
              v \notin VersionsOf(last.migrations)

\* AppliedAfter returned a reversible Source entry and left out, without an
\* error, an applied Version above V that the Source no longer has.
C25_Witness ==
    /\ last.op = "AppliedAfter" /\ CollectsSucceeded
    /\ last.version \in Applied
    /\ last.err = NoError
    /\ Len(last.migrations) >= 1
    /\ Reversible(last.migrations[1])
    /\ \E v \in Applied : v > last.version /\ v \notin VersionsOf(source)

\* C26: Sort puts an entry with an earlier apply time before any entry with
\* a later one, whatever their Versions, and orders entries of the same
\* apply time by ascending Version; ReverseSort orders by the same key
\* descending. Both keep every entry.
C26_SortByApplyTimeFirst ==
    /\ last.op \in {"Sort", "ReverseSort"} =>
          /\ Len(last.migrations) = Len(last.recv)
          /\ \A x \in Entries(last.recv) : x \in Entries(last.migrations)
    /\ last.op = "Sort" =>
          \A i, j \in DOMAIN last.migrations :
              i < j =>
                 /\ last.migrations[i].AppliedAt <= last.migrations[j].AppliedAt
                 /\ last.migrations[i].AppliedAt = last.migrations[j].AppliedAt
                       => last.migrations[i].Version < last.migrations[j].Version
    /\ last.op = "ReverseSort" =>
          \A i, j \in DOMAIN last.migrations :
              i < j =>
                 /\ last.migrations[i].AppliedAt >= last.migrations[j].AppliedAt
                 /\ last.migrations[i].AppliedAt = last.migrations[j].AppliedAt
                       => last.migrations[i].Version > last.migrations[j].Version

\* Sort put a higher Version with an earlier apply time before a lower
\* Version applied later, and two entries of one apply time by Version.
C26_Witness ==
    /\ last.op = "Sort"
    /\ \E i, j \in DOMAIN last.migrations :
          /\ i < j
          /\ last.migrations[i].Version > last.migrations[j].Version
          /\ last.migrations[i].AppliedAt < last.migrations[j].AppliedAt
    /\ \E i, j \in DOMAIN last.migrations :
          /\ i < j
          /\ last.migrations[i].AppliedAt = last.migrations[j].AppliedAt
    /\ last.recv # last.migrations

(* ----------------------- one query after another ------------------------ *)

\* The call before this one was failed neither by the database nor by the
\* Source.
PrevClean == last.fault = "none" /\ ~last.sourceFails

\* A query that also repairs drift: it deletes the ledger records of the
\* Versions the Source no longer has.
RequeriedPruning(op, version, fault, sourceFails, table, index, r) ==
    /\ tableExists' = table
    /\ indexExists' = index
    /\ ledger' = SetToBag(BagToSet(ledger) \cap VersionsOf(source))
    /\ last' = [NoCall EXCEPT
                   !.op = op, !.version = version,
                   !.fault = fault, !.sourceFails = sourceFails,
                   !.before = ledger, !.beforeSchema = schema,
                   !.beforeTable = tableExists,
                   !.migrations = r.migrations, !.err = r.err,
                   !.prevOp = IF PrevClean THEN last.op ELSE "faulted",
                   !.prevVersion = IF PrevClean THEN last.version ELSE 0,
                   !.prevMigrations = IF PrevClean THEN last.migrations
                                      ELSE <<>>,
                   !.prevErr = IF PrevClean THEN last.err ELSE NoError]
    /\ UNCHANGED <<inputVars, schema, driverVars>>

\* The database and the record of the call after a query of the Gloat, with
\* what the query before it was and returned: Collect may have created the
\* table and the index, and nothing else of the database is written.
Requeried(op, version, fault, sourceFails, table, index, r) ==
    /\ tableExists' = table
    /\ indexExists' = index
    /\ last' = [NoCall EXCEPT
                   !.op = op, !.version = version,
                   !.fault = fault, !.sourceFails = sourceFails,
                   !.before = ledger, !.beforeSchema = schema,
                   !.beforeTable = tableExists,
                   !.migrations = r.migrations, !.err = r.err,
                   !.prevOp = IF PrevClean THEN last.op ELSE "faulted",
                   !.prevVersion = IF PrevClean THEN last.version ELSE 0,
                   !.prevMigrations = IF PrevClean THEN last.migrations
                                      ELSE <<>>,
                   !.prevErr = IF PrevClean THEN last.err ELSE NoError]
    /\ UNCHANGED <<inputVars, ledger, schema, driverVars>>

\* Gloat.Unapplied
AgainUnapplied ==
    \E fault \in StoreFaults, sourceFails \in BOOLEAN :
        LET storeRes == StoreCollect(tableExists, indexExists, ledger, fault)
        IN Requeried("Unapplied", 0, fault, sourceFails,
                     storeRes.table, storeRes.index,
                     UnappliedMigrations(storeRes,
                                         SourceCollect(source, sourceFails)))

\* Gloat.Current
AgainCurrent ==
    \E fault \in StoreFaults, sourceFails \in BOOLEAN :
        LET storeRes == StoreCollect(tableExists, indexExists, ledger, fault)
        IN Requeried("Current", 0, fault, sourceFails,
                     storeRes.table, storeRes.index,
                     GloatCurrent(storeRes, SourceCollect(source, sourceFails)))

\* Gloat.AppliedAfter
AgainAppliedAfter ==
    \E version \in Versions, fault \in StoreFaults, sourceFails \in BOOLEAN :
        LET storeRes == StoreCollect(tableExists, indexExists, ledger, fault)
        IN Requeried("AppliedAfter", version, fault, sourceFails,
                     storeRes.table, storeRes.index,
                     AppliedAfter(storeRes, SourceCollect(source, sourceFails),
                                  version))

\* Gloat.Latest, which reads the Source alone.
AgainLatest ==
    \E sourceFails \in BOOLEAN :
        Requeried("Latest", 0, "none", sourceFails, tableExists, indexExists,
                  GloatLatest(SourceCollect(source, sourceFails)))

\* Gloat.Present, which reads the Source alone.
AgainPresent ==
    \E sourceFails \in BOOLEAN :
        Requeried("Present", 0, "none", sourceFails, tableExists, indexExists,
                  GloatPresent(SourceCollect(source, sourceFails)))

InitRepeat ==
    /\ source \in RaceSources
    /\ InitDatabase
    /\ InitDrivers

NextRepeat ==
    \/ AgainUnapplied
    \/ AgainCurrent
    \/ AgainAppliedAfter
    \/ AgainLatest
    \/ AgainPresent

\* The five queries of the Gloat called in any order, any number of times.
SpecRepeat == InitRepeat /\ [][NextRepeat]_vars

UpSources ==
    {s \in Sources : \A i \in DOMAIN s : s[i].DownSQL = <<>>}

\* What the command that ended before the one now starting did: its name,
\* what it returned and the number of migrations it committed.
Prior(d) ==
    [cmd |-> batch[d].cmd, err |-> cmdErr[d], applied |-> Len(batch[d].done)]

\* upCmd up to its loop, invoked after an earlier command of the same
\* process owner has returned: gl.Unapplied()
UpCmdAgain(d) ==
    /\ pc[d] = "idle"
    /\ \E fault \in StoreFaults, sourceFails \in BOOLEAN :
          LET storeRes == StoreCollect(tableExists, indexExists, ledger, fault)
              r == UnappliedMigrations(storeRes,
                                       SourceCollect(source, sourceFails))
          IN /\ Queried("Unapplied", 0, fault, sourceFails, storeRes, r)
             /\ pc' = [pc EXCEPT ![d] = IF r.err = NoError THEN "up"
                                        ELSE "idle"]
             /\ queue' = [queue EXCEPT ![d] = r.migrations]
             /\ cmdErr' = [cmdErr EXCEPT ![d] = r.err]
             /\ batch' = [batch EXCEPT ![d] =
                             [cmd |-> "up", version |-> 0,
                              before |-> ledger, planned |-> r.migrations,
                              done |-> <<>>, attempts |-> 0,
                              prior |-> Prior(d)]]
             /\ UNCHANGED tx

InitUp ==
    /\ source \in UpSources
    /\ InitDatabase
    /\ InitDrivers

NextUp ==
    \/ UpCmdAgain(Actor)
    \/ UpCmdApply(Actor)
    \/ CmdDone(Actor)

\* One driver running up again and again.
SpecUp == InitUp /\ [][NextUp]_vars

\* C28: with one driver, once an up batch has returned nil every Version of
\* the Source is recorded in the ledger; the Unapplied() of an up batch that
\* follows it, if it fails nowhere, returns the empty collection without an
\* error, and that batch attempts nothing and leaves the ledger as it was.
C28_UpBatchExhaustsSource ==
    LET b == batch[Actor]
    IN /\ Completed(Actor, "up") => VersionsOf(source) \subseteq Applied
       /\ (b.cmd = "up" /\ b.prior.cmd = "up" /\ b.prior.err = NoError) =>
             /\ last.op = "Unapplied"
             /\ (last.fault = "none" /\ ~last.sourceFails) =>
                   /\ last.err = NoError
                   /\ last.migrations = <<>>
             /\ b.planned = <<>>
             /\ b.attempts = 0
             /\ ledger = b.before
             /\ VersionsOf(source) \subseteq Applied

\* An up batch that returned nil after another that had committed two
\* migrations and returned nil: its Unapplied() was empty.
C28_Witness ==
    LET b == batch[Actor]
    IN /\ Completed(Actor, "up")
       /\ b.prior.cmd = "up" /\ b.prior.err = NoError
       /\ b.prior.applied >= 2
       /\ last.op = "Unapplied"
       /\ last.fault = "none" /\ ~last.sourceFails
       /\ last.migrations = <<>>
       /\ Len(source) >= 2

\* C29: with one driver running up batches one after another, batches that
\* stopped at a failing migration and their retries among them, a forward
\* script is only ever executed for a Version that the ledger does not
\* record at the call, and every batch starts at the lowest Version of the
\* Source that the ledger does not record and holds no recorded Version.
C29_NoRerunOfCommitted ==
    LET b == batch[Actor]
        unrecorded == VersionsOf(source) \ BagToSet(b.before)
    IN /\ (last.op = "Up" /\ last.ranScript) =>
             ~BagIn(last.version, last.before)
       /\ b.cmd = "up" =>
             /\ VersionsOf(b.planned) \subseteq unrecorded
             /\ b.planned # <<>> =>
                   /\ b.planned[1].Version \in unrecorded
                   /\ \A v \in unrecorded : b.planned[1].Version <= v

\* The retry of an up batch that had committed a migration and then stopped
\* at a failure: it has just run the script of the first unrecorded migration
\* and committed it, the earlier one left as it was.
C29_Witness ==
    LET b == batch[Actor]
    IN /\ b.cmd = "up"
       /\ b.prior.cmd = "up" /\ b.prior.err # NoError
       /\ b.prior.applied >= 1
       /\ last.op = "Up" /\ last.ranScript /\ last.err = NoError
       /\ b.done = <<last.version>>
       /\ \E v \in BagToSet(b.before) :
             /\ v < last.version
             /\ v \in VersionsOf(source)
             /\ CopiesIn(v, ledger) = 1

\* C30: an up batch is the Unapplied() of its start in strictly ascending
\* Version order; the Versions it has applied are at every point the first
\* entries of that batch, in its order, and a migration handed to Apply has
\* every unapplied Source migration of a lower Version applied before it.
C30_UpBatchAscendingPrefix ==
    LET b == batch[Actor]
        unrecorded == VersionsOf(source) \ BagToSet(b.before)
    IN b.cmd = "up" =>
          /\ \A i, j \in DOMAIN b.planned :
                i < j => b.planned[i].Version < b.planned[j].Version
          /\ b.planned # <<>> => VersionsOf(b.planned) = unrecorded
          /\ Len(b.done) <= Len(b.planned)
          /\ b.done = VersionSeq(SubSeq(b.planned, 1, Len(b.done)))
          /\ last.op = "Up" =>
                /\ b.attempts \in DOMAIN b.planned
                /\ last.version = b.planned[b.attempts].Version
                /\ \A v \in unrecorded :
                      v < last.version => v \in RangeOf(b.done)

\* An up batch over a Source that lists a higher Version before a lower one:
\* two of its three migrations are applied, the lower Version first.
C30_Witness ==
    LET b == batch[Actor]
    IN /\ b.cmd = "up"
       /\ Len(source) >= 2
       /\ source[1].Version > source[2].Version
       /\ Len(b.planned) = 3
       /\ Len(b.done) = 2
       /\ b.done[1] < b.done[2]
       /\ last.op = "Up" /\ last.err = NoError
       /\ last.version = b.done[2]

====
